---- MODULE Spec2Model ----
(***************************************************************************)
(* A model of resellerclub.py: the ApiClient operations, the Address       *)
(* marshalling and the command line frontend (main, cmd_activate,          *)
(* cmd_domain, run).                                                       *)
(*                                                                         *)
(* Python values are tagged records ([py |-> "bool", val |-> TRUE], ...),  *)
(* so that None, True, 50 and "foo" stay different values.  A decoded JSON  *)
(* string keeps its characters (field chars), because `'error' in result`  *)
(* is a substring test on it.                                              *)
(*                                                                         *)
(* The remote service is the environment: every request either fails in    *)
(* the transport or returns one body of Bodies.                            *)
(***************************************************************************)
EXTENDS Integers, Sequences, FiniteSets, TLC

VARIABLES
    pc,         \* position of the running invocation / operation
    call,       \* the entry point invoked: main, or an ApiClient method
    argv,       \* sys.argv[1:] of a main invocation
    args,       \* the dictionary docopt returned (NoArgs before parsing)
    op,         \* the ApiClient operation in execution ("none" before one)
    requests,   \* every request handed to session.request, in order
    responses,  \* what each finished request returned (or "raise")
    stdout,     \* what was printed, in order
    outcome,    \* how the invocation / operation ended
    address,    \* input of Address.to_params
    params      \* result of Address.to_params

vars == <<pc, call, argv, args, op, requests, responses, stdout, outcome,
          address, params>>

-----------------------------------------------------------------------------
(* Python values *)

PyNone == [py |-> "NoneType"]

PyBool(b) == [py |-> "bool", val |-> b]

PyInt(i) == [py |-> "int", val |-> i]

PyStr(s) == [py |-> "str", val |-> s]

\* bool(v), as `or` uses it
Truthy(v) ==
    CASE v.py = "NoneType" -> FALSE
      [] v.py = "bool" -> v.val
      [] v.py = "int" -> v.val # 0
      [] v.py = "str" -> v.val # ""

\* a or b
PyOr(a, b) == IF Truthy(a) THEN a ELSE b

-----------------------------------------------------------------------------
(* Decoded JSON bodies (response.json()) *)

JDict(d) == [py |-> "dict", val |-> d]

JList(l) == [py |-> "list", val |-> l]

JStr(c) == [py |-> "str", chars |-> c]

JNum(n) == [py |-> "int", val |-> n]

ErrorChars == <<"e", "r", "r", "o", "r">>

\* Bounds of the model
MaxEntityId == 2

MaxTtl == 1

EntityIds == 1..MaxEntityId

Messages == {"domain not found", "error"}

DictBodies ==
    { JDict([entityid |-> e, status |-> "Active"]) : e \in EntityIds }
    \cup { JDict([status |-> "ERROR", message |-> m]) : m \in Messages }
    \cup { JDict([status |-> "error", error |-> m]) : m \in Messages }
    \cup { JDict([status |-> "Success"]),
           JDict([status |-> "ERROR"]),
           JDict([message |-> "domain not found"]),
           JDict([entityid |-> 1, error |-> "error"]) }

OtherBodies ==
    { JList(<<>>), JList(<<"error">>), JList(<<"8.8.8.8">>),
      JStr(<<"o", "k">>), JStr(ErrorChars), JStr(<<"n", "o">> \o ErrorChars),
      JNum(7), PyBool(TRUE), PyNone }

Bodies == DictBodies \cup OtherBodies

\* the outcome of a transport or decode failure in ApiClient.request
TransportFailure == [py |-> "raise", exc |-> "TransportError"]

-----------------------------------------------------------------------------
(* Ways an invocation or operation ends *)

Running == [kind |-> "running"]

Returned(v) == [kind |-> "return", value |-> v]

Raised(e, m) == [kind |-> "raise", exc |-> e, msg |-> m]

Exited(code) == [kind |-> "exit", code |-> code]

\* run(): an exception that nobody catches ends the process with status 1
Uncaught(e, m) == [kind |-> "exit", code |-> 1, exc |-> e, msg |-> m]

-----------------------------------------------------------------------------
(* Program constants *)

MAX_RECORDS == 50

\* the default of dns_search's no_of_records parameter
DEFAULT_NO_OF_RECORDS == 10

-----------------------------------------------------------------------------
(* Address.to_params *)

AddressFields ==
    {"line_1", "line_2", "line_3", "city", "state", "country", "zipcode"}

to_params(self) ==
    [k \in {"address-line-1", "self-line-2", "self-line-3",
            "city", "state", "country", "zipcode"} |->
        CASE k = "address-line-1" -> self.line_1
          [] k = "self-line-2" -> self.line_2
          [] k = "self-line-3" -> self.line_3
          [] k = "city" -> self.city
          [] k = "state" -> self.state
          [] k = "country" -> self.country
          [] k = "zipcode" -> self.zipcode]

\* dict.update: the entries of b win
Update(a, b) ==
    [k \in DOMAIN a \cup DOMAIN b |-> IF k \in DOMAIN b THEN b[k] ELSE a[k]]

-----------------------------------------------------------------------------
(* check_error *)

\* res.get('status') == 'ERROR' on a mapping
HasErrorStatus(res) ==
    /\ res.py = "dict"
    /\ "status" \in DOMAIN res.val
    /\ res.val.status = "ERROR"

\* check_error without the status test
check_error_mut(res) == Returned(res)

check_error(res) ==
    IF HasErrorStatus(res)
    THEN IF "message" \in DOMAIN res.val
         THEN Raised("ResellerError", res.val.message)
         ELSE Raised("KeyError", "message")
    ELSE Returned(res)

\* obj.get(key) in place of obj[key]
Subscript_mut(obj, key) ==
    IF obj.py = "dict"
    THEN IF key \in DOMAIN obj.val
         THEN Returned(obj.val[key])
         ELSE Returned(PyNone)
    ELSE Raised("TypeError", key)

\* obj[key], as dns_activate uses it on the decoded body
Subscript(obj, key) ==
    IF obj.py = "dict"
    THEN IF key \in DOMAIN obj.val
         THEN Returned(obj.val[key])
         ELSE Raised("KeyError", key)
    ELSE Raised("TypeError", key)

-----------------------------------------------------------------------------
(* ApiClient: the request every operation builds.  The URL (base URL,     *)
(* append_slash, the ".json" suffix) and the session's auth parameters are *)
(* the same for every request and are left out of the request record.      *)

Request(http_method, api_method, p) ==
    [http_method |-> http_method, api_method |-> api_method, params |-> p]

domains_get_details(name) ==
    Request("GET", "domains/details-by-name",
            [k \in {"domain-name", "options"} |->
                IF k = "domain-name" THEN name ELSE PyStr("All")])

\* the activation sent with the entity id under the name the lookup used
dns_activate_post_mut(order_id) ==
    Request("POST", "dns/activate",
            [k \in {"entityid"} |-> order_id])

dns_activate_post(order_id) ==
    Request("POST", "dns/activate",
            [k \in {"order-id"} |-> order_id])

dns_search(domain, type, no_of_records, host) ==
    Request("GET", "dns/manage/search-records",
            [k \in {"domain-name", "type", "no-of-records", "page-no", "host"} |->
                CASE k = "domain-name" -> domain
                  [] k = "type" -> type
                  [] k = "no-of-records" -> PyInt(no_of_records)
                  [] k = "page-no" -> PyInt(1)
                  [] k = "host" -> host])

dns_add_record(record_type, domain, value, host, ttl) ==
    Request("POST", "dns/manage/add-" \o record_type \o "-record",
            [k \in {"domain-name", "value", "host", "ttl"} |->
                CASE k = "domain-name" -> domain
                  [] k = "value" -> value
                  [] k = "host" -> host
                  [] k = "ttl" -> PyOr(ttl, PyNone)])

dns_delete_record(record_type, domain, value, host) ==
    Request("POST", "dns/manage/delete-" \o record_type \o "-record",
            [k \in {"domain-name", "value", "host"} |->
                CASE k = "domain-name" -> domain
                  [] k = "value" -> value
                  [] k = "host" -> host])

\* The loop `for record_type in ('ipv4', 'ipv6', 'cname')` and make_funcs:
\* the record type each generated method passes on.
RecordTypeLoop == <<"ipv4", "ipv6", "cname">>

\* closures that read the loop variable when called: its last value
make_funcs_mut(record_type) ==
    [add |-> RecordTypeLoop[Len(RecordTypeLoop)],
     delete |-> RecordTypeLoop[Len(RecordTypeLoop)]]

make_funcs(record_type) ==
    [add |-> record_type, delete |-> record_type]

AddMethodName(record_type) == "dns_add_" \o record_type \o "_record"

DeleteMethodName(record_type) == "dns_delete_" \o record_type \o "_record"

\* The attributes setattr put on ApiClient, by name.
GeneratedMethods ==
    [n \in { AddMethodName(RecordTypeLoop[i]) : i \in 1..3 }
           \cup { DeleteMethodName(RecordTypeLoop[i]) : i \in 1..3 } |->
        LET i == CHOOSE j \in 1..3 :
                    n \in { AddMethodName(RecordTypeLoop[j]),
                            DeleteMethodName(RecordTypeLoop[j]) }
        IN  IF n = AddMethodName(RecordTypeLoop[i])
            THEN [kind |-> "add",
                  record_type |-> make_funcs(RecordTypeLoop[i]).add]
            ELSE [kind |-> "delete",
                  record_type |-> make_funcs(RecordTypeLoop[i]).delete]]

-----------------------------------------------------------------------------
(* docopt on main's usage text.  The text has no options section, so       *)
(* `--ttl` is a flag without an argument and `int` is a command word;      *)
(* `[--ttl int]` makes each of the two optional on its own.                *)

TtlFlag == "--ttl"

NoArgs == [py |-> "NoneType"]

DocoptExit == [py |-> "raise", exc |-> "DocoptExit"]

Positionals(av) == SelectSeq(av, LAMBDA t : t # TtlFlag)

FlagCount(av) == Len(SelectSeq(av, LAMBDA t : t = TtlFlag))

ArgsDict(cmd, pos, ttl, int) ==
    [dns |-> PyBool(TRUE),
     domain |-> PyStr(pos[2]),
     add |-> PyBool(cmd = "add"),
     delete |-> PyBool(cmd = "delete"),
     list |-> PyBool(cmd = "list"),
     activate |-> PyBool(cmd = "activate"),
     record_type |-> IF cmd = "activate" THEN PyNone ELSE PyStr(pos[4]),
     name |-> IF cmd = "activate" THEN PyNone ELSE PyStr(pos[5]),
     value |-> IF cmd \in {"add", "delete"} THEN PyStr(pos[6]) ELSE PyNone,
     ttl |-> PyBool(ttl),
     int |-> PyBool(int)]

Docopt(av) ==
    LET pos == Positionals(av)
        n == Len(pos)
        flags == FlagCount(av)
    IN  IF n < 3 \/ pos[1] # "dns" THEN DocoptExit
        ELSE IF pos[3] = "add" /\ n = 6 /\ flags <= 1
             THEN ArgsDict("add", pos, flags = 1, FALSE)
        ELSE IF pos[3] = "add" /\ n = 7 /\ pos[7] = "int" /\ flags <= 1
             THEN ArgsDict("add", pos, flags = 1, TRUE)
        ELSE IF pos[3] = "delete" /\ n = 6 /\ flags = 0
             THEN ArgsDict("delete", pos, FALSE, FALSE)
        ELSE IF pos[3] = "list" /\ n = 5 /\ flags = 0
             THEN ArgsDict("list", pos, FALSE, FALSE)
        ELSE IF pos[3] = "activate" /\ n = 3 /\ flags = 0
             THEN ArgsDict("activate", pos, FALSE, FALSE)
        ELSE DocoptExit

-----------------------------------------------------------------------------
(* cmd_domain and main *)

part_for_record == [A |-> "ipv4", AAAA |-> "ipv6", CNAME |-> "cname"]

Supported(record_type) ==
    record_type.py = "str" /\ record_type.val \in DOMAIN part_for_record

\* cmd_domain handing the internal alias and the default page size to dns_search
cmd_domain_mut(a) ==
    LET part == part_for_record[a.record_type.val]
    IN  IF Truthy(a.add)
        THEN dns_add_record(GeneratedMethods[AddMethodName(part)].record_type,
                            a.domain, a.value, a.name, a.ttl)
        ELSE IF Truthy(a.delete)
        THEN dns_delete_record(GeneratedMethods[DeleteMethodName(part)].record_type,
                               a.domain, a.value, a.name)
        ELSE dns_search(a.domain, PyStr(part), DEFAULT_NO_OF_RECORDS, a.name)

\* the request cmd_domain makes for a supported record type
cmd_domain(a) ==
    LET part == part_for_record[a.record_type.val]
    IN  IF Truthy(a.add)
        THEN dns_add_record(GeneratedMethods[AddMethodName(part)].record_type,
                            a.domain, a.value, a.name, a.ttl)
        ELSE IF Truthy(a.delete)
        THEN dns_delete_record(GeneratedMethods[DeleteMethodName(part)].record_type,
                               a.domain, a.value, a.name)
        ELSE dns_search(a.domain, a.record_type, MAX_RECORDS, a.name)

\* 'error' in result
IsSubstring(needle, hay) ==
    \E i \in 1..(Len(hay) - Len(needle) + 1) :
        SubSeq(hay, i, i + Len(needle) - 1) = needle

ErrorIn(result) ==
    CASE result.py = "dict" -> Returned("error" \in DOMAIN result.val)
      [] result.py = "list" ->
            Returned(\E i \in 1..Len(result.val) : result.val[i] = "error")
      [] result.py = "str" -> Returned(IsSubstring(ErrorChars, result.chars))
      [] OTHER -> Raised("TypeError", "not iterable")

NotSupportedLine(record_type) ==
    [kind |-> "text",
     text |-> "Not a supported record type: " \o record_type.val]

JsonLine(result) == [kind |-> "json", value |-> result]

\* main without the `result is None` test
MainTail_mut(result) ==
    [out |-> <<JsonLine(result)>>,
     end |-> LET e == ErrorIn(result)
             IN  IF e.kind = "raise" THEN Uncaught(e.exc, e.msg)
                 ELSE IF e.value THEN Exited(1) ELSE Exited(0)]

\* main after the command returned `result`: what is printed, and how run()
\* ends the process
MainTail(result) ==
    IF result = PyNone
    THEN [out |-> <<>>, end |-> Exited(0)]
    ELSE [out |-> <<JsonLine(result)>>,
          end |-> LET e == ErrorIn(result)
                  IN  IF e.kind = "raise" THEN Uncaught(e.exc, e.msg)
                      ELSE IF e.value THEN Exited(1) ELSE Exited(0)]

-----------------------------------------------------------------------------
(* The other ApiClient operations *)

ParamsOf(c, keys) == [k \in keys |-> c[k]]

domains_register(c) ==
    Request("POST", "domains/register",
            ParamsOf(c, {"domain-name", "years", "ns", "customer-id",
                         "reg-contact-id", "admin-contact-id",
                         "tech-contact-id", "billing-contact-id",
                         "invoice-option", "purchase-privacy",
                         "protect-privacy"}))

domains_default_ns(c) ==
    Request("GET", "domains/customer-default-ns", ParamsOf(c, {"customer-id"}))

contacts_add(c) ==
    Request("POST", "contacts/add",
            Update(ParamsOf(c, {"type", "name", "company", "email", "phone-cc",
                                "phone", "customer-id"}),
                   to_params(c.address)))

customers_add(c) ==
    Request("POST", "customers/signup",
            Update(ParamsOf(c, {"username", "passwd", "name", "company",
                                "phone-cc", "phone", "lang-pref"}),
                   to_params(c.address)))

domains_check_availability(c) ==
    Request("GET", "domains/available",
            ParamsOf(c, {"domain-name", "tlds", "suggest-alternative"}))

\* The first request a library call makes.
FirstRequest(c) ==
    CASE c.op = "domains_get_details" -> domains_get_details(c["domain-name"])
      [] c.op = "domains_register" -> domains_register(c)
      [] c.op = "domains_default_ns" -> domains_default_ns(c)
      [] c.op = "contacts_add" -> contacts_add(c)
      [] c.op = "customers_add" -> customers_add(c)
      [] c.op = "domains_check_availability" -> domains_check_availability(c)
      [] c.op = "dns_activate" -> domains_get_details(c["domain-name"])
      [] c.op = "dns_search" ->
            dns_search(c["domain-name"], c.type, c["no-of-records"], c.host)
      [] c.op \in DOMAIN GeneratedMethods /\ GeneratedMethods[c.op].kind = "add" ->
            dns_add_record(GeneratedMethods[c.op].record_type,
                           c["domain-name"], c.value, c.host, c.ttl)
      [] c.op \in DOMAIN GeneratedMethods /\ GeneratedMethods[c.op].kind = "delete" ->
            dns_delete_record(GeneratedMethods[c.op].record_type,
                              c["domain-name"], c.value, c.host)

\* What an operation does with the body of its last request.
Finish(o, body) ==
    CASE o = "domains_register" -> check_error(body)
      [] o = "domains_default_ns" -> check_error(body)
      [] o = "contacts_add" -> check_error(body)
      [] o = "customers_add" -> check_error(body)
      [] o = "domains_check_availability" -> check_error(body)
      [] o = "domains_get_details" -> Returned(body)
      [] o = "dns_activate" -> Returned(body)
      [] o = "dns_search" -> Returned(body)
      [] o = "dns_add_record" -> Returned(body)
      [] o = "dns_delete_record" -> Returned(body)

\* The ApiClient operation behind a method name.
OperationOf(method) ==
    IF method \in DOMAIN GeneratedMethods
    THEN IF GeneratedMethods[method].kind = "add"
         THEN "dns_add_record" ELSE "dns_delete_record"
    ELSE method

-----------------------------------------------------------------------------
(* Inputs *)

Domains == {"example.org", "example.net"}

RecordTypeWords == {"A", "AAAA", "CNAME", "TXT"}

Names == {"foo"}

Values == {"8.8.8.8"}

TtlTails == {<<>>, <<"--ttl">>, <<"--ttl", "300">>, <<"--ttl", "int">>, <<"int">>}

Argvs ==
    { <<"dns", d, "activate">> : d \in Domains }
    \cup { <<"dns", d>> : d \in Domains }
    \cup { <<"dns", d, "add", r, n, v>> \o t :
             d \in Domains, r \in RecordTypeWords, n \in Names, v \in Values,
             t \in TtlTails }
    \cup { <<"dns", d, "delete", r, n, v>> \o t :
             d \in Domains, r \in RecordTypeWords, n \in Names, v \in Values,
             t \in {<<>>, <<"--ttl">>} }
    \cup { <<"dns", d, "list", r, n>> :
             d \in Domains, r \in RecordTypeWords, n \in Names }

MainCall == [op |-> "main"]

SampleAddresses ==
    { [line_1 |-> PyStr("1 Main St"), line_2 |-> l2, line_3 |-> PyStr(""),
       city |-> PyStr("Springfield"), state |-> PyStr("OR"),
       country |-> PyStr("US"), zipcode |-> PyStr("97477")] :
        l2 \in {PyStr("Suite 2"), PyStr("")} }

Field(k, v) == [x \in {k} |-> v]

DomainCalls(o) ==
    { Field("op", o) @@ Field("domain-name", PyStr(d)) : d \in Domains }

LibraryCalls ==
    DomainCalls("domains_get_details")
    \cup DomainCalls("dns_activate")
    \cup { c @@ [years |-> PyInt(1), ns |-> PyStr("ns1.example.org")]
             @@ Field("customer-id", PyInt(7))
             @@ Field("reg-contact-id", PyInt(1))
             @@ Field("admin-contact-id", PyInt(2))
             @@ Field("tech-contact-id", PyInt(3))
             @@ Field("billing-contact-id", PyInt(4))
             @@ Field("invoice-option", PyStr("NoInvoice"))
             @@ Field("purchase-privacy", PyBool(FALSE))
             @@ Field("protect-privacy", PyBool(FALSE)) :
           c \in DomainCalls("domains_register") }
    \cup { [op |-> "domains_default_ns"] @@ Field("customer-id", PyInt(7)) }
    \cup { [op |-> "contacts_add", type |-> PyStr("Contact"),
            name |-> PyStr("Jo"), company |-> PyStr("N/A"),
            email |-> PyStr("jo@example.org"), phone |-> PyStr("5550100"),
            address |-> a]
             @@ Field("phone-cc", PyStr("1")) @@ Field("customer-id", PyInt(7)) :
           a \in SampleAddresses }
    \cup { [op |-> "customers_add", username |-> PyStr("jo@example.org"),
            passwd |-> PyStr("secret"), name |-> PyStr("Jo"),
            company |-> PyStr("N/A"), phone |-> PyStr("5550100"),
            address |-> a]
             @@ Field("phone-cc", PyStr("1")) @@ Field("lang-pref", PyStr("en")) :
           a \in SampleAddresses }
    \cup { c @@ [tlds |-> PyStr("org")]
             @@ Field("suggest-alternative", PyBool(FALSE)) :
           c \in DomainCalls("domains_check_availability") }
    \cup { c @@ [type |-> PyStr(t), host |-> PyStr("foo")]
             @@ Field("no-of-records", n) :
           c \in DomainCalls("dns_search"), t \in {"A", "CNAME"},
           n \in {DEFAULT_NO_OF_RECORDS, MAX_RECORDS} }
    \cup { c @@ [value |-> PyStr("8.8.8.8"), host |-> PyStr("foo"), ttl |-> t] :
           c \in UNION { DomainCalls(AddMethodName(RecordTypeLoop[i])) : i \in 1..3 },
           t \in {PyNone} \cup { PyInt(300 * i) : i \in 0..MaxTtl } }
    \cup { c @@ [value |-> PyStr("8.8.8.8"), host |-> PyStr("foo")] :
           c \in UNION { DomainCalls(DeleteMethodName(RecordTypeLoop[i])) : i \in 1..3 } }

-----------------------------------------------------------------------------
(* The state machine *)

NoAddress == [py |-> "NoneType"]

NoParams == [py |-> "NoneType"]

Init ==
    /\ pc = "start"
    /\ \/ call = MainCall /\ argv \in Argvs
       \/ call \in LibraryCalls /\ argv = <<>>
    /\ args = NoArgs
    /\ op = "none"
    /\ requests = <<>>
    /\ responses = <<>>
    /\ stdout = <<>>
    /\ outcome = Running
    /\ address = NoAddress
    /\ params = NoParams

\* An exception leaves the entry point: main's ends the process (run),
\* a library call's reaches the caller.
Fail(e, m) ==
    /\ outcome' = IF call = MainCall THEN Uncaught(e, m) ELSE Raised(e, m)
    /\ pc' = "done"

\* main up to its first request: docopt, then cmd_activate or cmd_domain.
Main ==
    /\ pc = "start"
    /\ call = MainCall
    /\ LET a == Docopt(argv)
       IN  IF a = DocoptExit
           THEN /\ Fail("DocoptExit", "usage")
                /\ UNCHANGED <<args, op, requests, stdout>>
           ELSE /\ args' = a
                /\ IF Truthy(a.activate)
                   THEN /\ op' = "dns_activate"
                        /\ requests' = Append(requests, domains_get_details(a.domain))
                        /\ pc' = "details"
                        /\ UNCHANGED <<stdout, outcome>>
                   ELSE IF ~Supported(a.record_type)
                   THEN /\ stdout' = Append(stdout, NotSupportedLine(a.record_type))
                                        \o MainTail(PyNone).out
                        /\ outcome' = MainTail(PyNone).end
                        /\ pc' = "done"
                        /\ UNCHANGED <<op, requests>>
                   ELSE /\ op' = IF Truthy(a.add) THEN "dns_add_record"
                                 ELSE IF Truthy(a.delete) THEN "dns_delete_record"
                                 ELSE "dns_search"
                        /\ requests' = Append(requests, cmd_domain(a))
                        /\ pc' = "await"
                        /\ UNCHANGED <<stdout, outcome>>
    /\ UNCHANGED <<call, argv, responses, address, params>>

\* A library caller invokes an ApiClient method, which sends its first request.
Call ==
    /\ pc = "start"
    /\ call # MainCall
    /\ op' = OperationOf(call.op)
    /\ requests' = Append(requests, FirstRequest(call))
    /\ pc' = IF call.op = "dns_activate" THEN "details" ELSE "await"
    /\ UNCHANGED <<call, argv, args, responses, stdout, outcome, address, params>>

\* dns_activate: the details lookup returns, ['entityid'] is taken from the
\* body and the activation is sent.
DetailsResponse ==
    /\ pc = "details"
    /\ \E body \in Bodies :
        /\ responses' = Append(responses, body)
        /\ LET order_id == Subscript(body, "entityid")
           IN  IF order_id.kind = "raise"
               THEN /\ Fail(order_id.exc, order_id.msg)
                    /\ UNCHANGED requests
               ELSE /\ requests' = Append(requests, dns_activate_post(order_id.value))
                    /\ pc' = "await"
                    /\ UNCHANGED outcome
    /\ UNCHANGED <<call, argv, args, op, stdout, address, params>>

\* The last request of the operation returns; main prints and exits.
Response ==
    /\ pc = "await"
    /\ \E body \in Bodies :
        /\ responses' = Append(responses, body)
        /\ LET r == Finish(op, body)
           IN  IF call # MainCall
               THEN /\ outcome' = r
                    /\ UNCHANGED stdout
               ELSE IF r.kind = "raise"
               THEN /\ outcome' = Uncaught(r.exc, r.msg)
                    /\ UNCHANGED stdout
               ELSE /\ stdout' = stdout \o MainTail(r.value).out
                    /\ outcome' = MainTail(r.value).end
    /\ pc' = "done"
    /\ UNCHANGED <<call, argv, args, op, requests, address, params>>

\* a failed request sent again
TransportError_mut ==
    /\ pc \in {"details", "await"}
    /\ responses' = Append(responses, TransportFailure)
    /\ requests' = Append(requests, requests[Len(requests)])
    /\ UNCHANGED <<pc, call, argv, args, op, stdout, outcome, address, params>>

\* session.request or response.json() raises.
TransportError ==
    /\ pc \in {"details", "await"}
    /\ responses' = Append(responses, TransportFailure)
    /\ Fail("TransportError", "transport")
    /\ UNCHANGED <<call, argv, args, op, requests, stdout, address, params>>

Next ==
    \/ Main
    \/ Call
    \/ DetailsResponse
    \/ Response
    \/ TransportError

Spec == Init /\ [][Next]_vars

-----------------------------------------------------------------------------
(* Address.to_params on its own *)

AddressValues == {PyStr("a"), PyStr("b")}

InitAddress ==
    /\ pc = "address"
    /\ call = [op |-> "to_params"]
    /\ argv = <<>>
    /\ args = NoArgs
    /\ op = "none"
    /\ requests = <<>>
    /\ responses = <<>>
    /\ stdout = <<>>
    /\ outcome = Running
    /\ address \in [AddressFields -> AddressValues]
    /\ params = NoParams

ToParams ==
    /\ pc = "address"
    /\ params' = to_params(address)
    /\ outcome' = Returned(params')
    /\ pc' = "done"
    /\ UNCHANGED <<call, argv, args, op, requests, responses, stdout, address>>

NextAddress == ToParams

SpecAddress == InitAddress /\ [][NextAddress]_vars

-----------------------------------------------------------------------------
(* Vocabulary of the properties.  Command lines are read from argv itself   *)
(* (the inputs put flags after the positional words), responses from the   *)
(* log of what the transport returned.                                     *)

SupportedWords == {"A", "AAAA", "CNAME"}

Alias(word) ==
    CASE word = "A" -> "ipv4"
      [] word = "AAAA" -> "ipv6"
      [] word = "CNAME" -> "cname"

WrappedOps ==
    {"domains_register", "domains_default_ns", "contacts_add", "customers_add",
     "domains_check_availability"}

IsMain == call = MainCall

\* docopt accepted the command line and main went on to dispatch
Dispatched == IsMain /\ args # NoArgs

Command == IF Len(argv) >= 3 THEN argv[3] ELSE "none"

RecordTypeWord == IF Len(argv) >= 4 THEN argv[4] ELSE "none"

Done == pc = "done"

Failed == "exc" \in DOMAIN outcome

IsErrorBody(b) ==
    b.py = "dict" /\ "status" \in DOMAIN b.val /\ b.val.status = "ERROR"

HasEntityId(b) == b.py = "dict" /\ "entityid" \in DOMAIN b.val

HasErrorKey(b) == b.py = "dict" /\ "error" \in DOMAIN b.val

LastResponse == responses[Len(responses)]

GotBody == Len(responses) >= 1 /\ LastResponse # TransportFailure

GivenDomain == IF IsMain THEN PyStr(argv[2]) ELSE call["domain-name"]

JsonPrinted == \E i \in 1..Len(stdout) : stdout[i].kind = "json"

IsDetailsLookup(r) ==
    /\ r.http_method = "GET"
    /\ r.api_method = "domains/details-by-name"
    /\ r.params["domain-name"] = GivenDomain

IsActivation(r, body) ==
    /\ r.http_method = "POST"
    /\ r.api_method = "dns/activate"
    /\ DOMAIN r.params = {"order-id"}
    /\ r.params["order-id"] = body.val.entityid

-----------------------------------------------------------------------------
(* C1 *)

\* C1 as stated: every finished activate whose details lookup returned a body
\* has issued exactly two requests, the lookup and then the activation with
\* the entityid of the lookup's response.
C1_Original ==
    (op = "dns_activate" /\ Done /\ responses[1] # TransportFailure) =>
        /\ Len(requests) = 2
        /\ IsDetailsLookup(requests[1])
        /\ HasEntityId(responses[1])
        /\ IsActivation(requests[2], responses[1])

\* C1 amended: activate first issues GET domains/details-by-name for the given
\* domain; a second request exists only after the first has returned a mapping
\* with an entityid, it is POST dns/activate with order-id equal to that
\* entityid, and it is issued whenever the first returned such a mapping;
\* there is never a third request.
C1_ActivateOrder ==
    op = "dns_activate" =>
        /\ Len(requests) \in {1, 2}
        /\ IsDetailsLookup(requests[1])
        /\ Len(requests) = 2 =>
              /\ Len(responses) >= 1
              /\ HasEntityId(responses[1])
              /\ IsActivation(requests[2], responses[1])
        /\ (Len(responses) >= 1 /\ HasEntityId(responses[1])) => Len(requests) = 2

C1_Witness ==
    /\ IsMain /\ Done /\ op = "dns_activate"
    /\ Len(requests) = 2 /\ Len(responses) = 2
    /\ requests[2].params["order-id"] = 2
    /\ outcome = Exited(0)

-----------------------------------------------------------------------------
(* C2 *)

\* C2: an add, delete or list command with an unsupported record type prints
\* the error message and nothing else, issues no request, prints no JSON and
\* exits with status 0.
C2_UnsupportedRecordType ==
    (Dispatched /\ Command \in {"add", "delete", "list"}
        /\ RecordTypeWord \notin SupportedWords) =>
        /\ Done
        /\ requests = <<>>
        /\ responses = <<>>
        /\ Len(stdout) = 1 /\ stdout[1].kind = "text"
        /\ ~JsonPrinted
        /\ outcome = Exited(0)

C2_Witness ==
    /\ Dispatched /\ Done /\ Command = "list" /\ RecordTypeWord = "TXT"
    /\ stdout = <<[kind |-> "text", text |-> "Not a supported record type: TXT"]>>
    /\ requests = <<>>

-----------------------------------------------------------------------------
(* C3 *)

\* C3 as stated: a finished library operation that got a body raised
\* ResellerError with the body's message when it is wrapped and the body is a
\* mapping with status ERROR, and returned the body unchanged otherwise.
C3_Original ==
    (~IsMain /\ Done /\ GotBody) =>
        IF op \in WrappedOps /\ IsErrorBody(LastResponse)
        THEN /\ outcome.kind = "raise"
             /\ outcome.exc = "ResellerError"
             /\ "message" \in DOMAIN LastResponse.val
             /\ outcome.msg = LastResponse.val.message
        ELSE outcome = Returned(LastResponse)

\* C3 amended: a wrapped operation raises ResellerError with exactly the
\* body's message when the body is a mapping with status ERROR that has a
\* message (without a message it fails with KeyError), and returns the body
\* unchanged otherwise; an unwrapped operation never raises ResellerError and
\* returns the body of its last request unchanged, except that activate fails
\* with KeyError or TypeError when its details lookup has no entityid.
C3_ErrorSurfacing ==
    (~IsMain /\ Done /\ GotBody) =>
        IF op \in WrappedOps
        THEN IF IsErrorBody(LastResponse)
             THEN IF "message" \in DOMAIN LastResponse.val
                  THEN outcome = Raised("ResellerError", LastResponse.val.message)
                  ELSE outcome.kind = "raise" /\ outcome.exc = "KeyError"
             ELSE outcome = Returned(LastResponse)
        ELSE IF op = "dns_activate" /\ Len(requests) = 1
             THEN /\ ~HasEntityId(LastResponse)
                  /\ outcome.kind = "raise"
                  /\ outcome.exc \in {"KeyError", "TypeError"}
             ELSE outcome = Returned(LastResponse)

C3_Witness ==
    /\ Done /\ op = "domains_register"
    /\ responses = <<JDict([status |-> "ERROR", message |-> "domain not found"])>>
    /\ outcome = Raised("ResellerError", "domain not found")

-----------------------------------------------------------------------------
(* C4 *)

\* C4: an add or delete command with a supported record type issues one POST
\* to dns/manage/add-{alias}-record or dns/manage/delete-{alias}-record, the
\* alias being the one of the record type given, with domain-name, value and
\* host taken from the command line.
C4_AliasRouting ==
    (Dispatched /\ Command \in {"add", "delete"}
        /\ RecordTypeWord \in SupportedWords) =>
        /\ Len(requests) = 1
        /\ requests[1].http_method = "POST"
        /\ requests[1].api_method =
              "dns/manage/" \o Command \o "-" \o Alias(RecordTypeWord) \o "-record"
        /\ requests[1].params["domain-name"] = PyStr(argv[2])
        /\ requests[1].params["value"] = PyStr(argv[6])
        /\ requests[1].params["host"] = PyStr(argv[5])

C4_Witness ==
    /\ Dispatched /\ Command = "delete" /\ RecordTypeWord = "AAAA"
    /\ Len(requests) = 1
    /\ requests[1].api_method = "dns/manage/delete-ipv6-record"

-----------------------------------------------------------------------------
(* C5 *)

\* the JSON value main printed
PrintedValue == (CHOOSE i \in 1..Len(stdout) : stdout[i].kind = "json")

\* C5: whenever a command printed its result, the exit status is 1 if the
\* result is an object with the key "error" at its top level and 0 if not,
\* for objects, arrays and scalars alike.
C5_ExitCode ==
    (IsMain /\ Done /\ JsonPrinted) =>
        /\ outcome.kind = "exit"
        /\ outcome.code = IF HasErrorKey(stdout[PrintedValue].value) THEN 1 ELSE 0

-----------------------------------------------------------------------------
(* C6 *)

HasTail(t) ==
    /\ Len(argv) = 6 + Len(t)
    /\ SubSeq(argv, 7, Len(argv)) = t

\* C6: an add command with a supported record type given `--ttl 300` sends
\* its add-record request with ttl 300, and one given without --ttl sends it
\* with ttl null.
C6_Ttl ==
    (IsMain /\ Done /\ Command = "add" /\ RecordTypeWord \in SupportedWords) =>
        /\ HasTail(<<"--ttl", "300">>) =>
              /\ Len(requests) = 1
              /\ requests[1].params["ttl"] \in {PyInt(300), PyStr("300")}
        /\ HasTail(<<>>) =>
              /\ Len(requests) = 1
              /\ requests[1].params["ttl"] = PyNone

-----------------------------------------------------------------------------
(* C7 *)

\* C7: a list command with a supported record type issues exactly one request,
\* GET dns/manage/search-records with no-of-records 50, page-no 1, the host
\* and domain given, and type equal to the record type word as typed.
C7_ListRequest ==
    (IsMain /\ pc # "start" /\ Command = "list"
        /\ RecordTypeWord \in SupportedWords) =>
        /\ Len(requests) = 1
        /\ requests[1].http_method = "GET"
        /\ requests[1].api_method = "dns/manage/search-records"
        /\ requests[1].params["no-of-records"] = PyInt(50)
        /\ requests[1].params["page-no"] = PyInt(1)
        /\ requests[1].params["host"] = PyStr(argv[5])
        /\ requests[1].params["domain-name"] = PyStr(argv[2])
        /\ requests[1].params["type"] = PyStr(RecordTypeWord)

C7_Witness ==
    /\ IsMain /\ Done /\ Command = "list" /\ RecordTypeWord = "AAAA"
    /\ Len(requests) = 1
    /\ requests[1].params["type"] = PyStr("AAAA")
    /\ responses = <<JList(<<"8.8.8.8">>)>>
    /\ outcome = Exited(0)

-----------------------------------------------------------------------------
(* C8 *)

\* C8 as stated: a finished add, delete or list command has made exactly one
\* network call, whatever its arguments.
C8_Original ==
    (Dispatched /\ Done /\ Command \in {"add", "delete", "list"}) =>
        Len(requests) = 1

\* C8 amended: an invocation makes at most two network calls, and two only on
\* the activate path; once finished, an add, delete or list command with a
\* supported record type has made exactly one, one with an unsupported record
\* type none, a command line docopt rejects none, and activate one or two.
C8_CallCount ==
    IsMain =>
        /\ Len(requests) <= 2
        /\ Len(requests) = 2 => Command = "activate"
        /\ Done =>
              IF ~Dispatched THEN Len(requests) = 0
              ELSE IF Command = "activate" THEN Len(requests) \in {1, 2}
              ELSE IF RecordTypeWord \in SupportedWords THEN Len(requests) = 1
              ELSE Len(requests) = 0

C8_Witness ==
    /\ Dispatched /\ Done /\ Command = "delete" /\ RecordTypeWord = "CNAME"
    /\ Len(requests) = 1 /\ Len(responses) = 1
    /\ outcome = Exited(0)

-----------------------------------------------------------------------------
(* C9 *)

\* C9: to_params yields exactly the seven keys address-line-1, address-line-2,
\* address-line-3, city, state, country and zipcode, each holding the value of
\* its own field.
C9_RoundTrip ==
    (pc = "done" /\ call = [op |-> "to_params"]) =>
        /\ DOMAIN params = {"address-line-1", "address-line-2", "address-line-3",
                            "city", "state", "country", "zipcode"}
        /\ params["address-line-1"] = address.line_1
        /\ params["address-line-2"] = address.line_2
        /\ params["address-line-3"] = address.line_3
        /\ params["city"] = address.city
        /\ params["state"] = address.state
        /\ params["country"] = address.country
        /\ params["zipcode"] = address.zipcode

-----------------------------------------------------------------------------
(* C10 *)

\* C10: when activate's details lookup returns a body without entityid, the
\* activation is never sent, exactly one request was made, the operation ends
\* in KeyError or TypeError (not ResellerError, and without the message of the
\* service), and nothing is printed.
C10_NoEntityId ==
    (op = "dns_activate" /\ Len(responses) >= 1
        /\ responses[1] # TransportFailure /\ ~HasEntityId(responses[1])) =>
        /\ Done
        /\ Len(requests) = 1
        /\ requests[1].api_method = "domains/details-by-name"
        /\ Failed
        /\ outcome.exc \in {"KeyError", "TypeError"}
        /\ outcome.msg \notin Messages
        /\ stdout = <<>>
        /\ IsMain => outcome.kind = "exit" /\ outcome.code = 1

C10_Witness ==
    /\ IsMain /\ Done /\ op = "dns_activate"
    /\ responses = <<JDict([status |-> "ERROR", message |-> "domain not found"])>>
    /\ requests = <<domains_get_details(PyStr(argv[2]))>>
    /\ outcome = Uncaught("KeyError", "entityid")

====
